---- MODULE Spec2Model ----
(***************************************************************************)
(* CometLogger (src/src/tracktor/comet_utils.py): a guard around the       *)
(* comet_ml client.  The guard's flag _logging is None (UNINITIALIZED),    *)
(* True (ACTIVE) or False (DISABLED).  Every public method is wrapped by   *)
(* _requiresComet, which activates the client on first use and forwards    *)
(* the call to the experiment handle only when the flag is True.           *)
(*                                                                         *)
(* The comet_ml client is the environment: each of its calls either        *)
(* returns or raises, chosen nondeterministically.                         *)
(***************************************************************************)
EXTENDS Naturals, Sequences, FiniteSets

\* Bound on the number of operation calls made on the guard.
MaxCalls == 3

\* Bound on the number of operation calls made by the two threads together.
MaxThreadCalls == 2

\* Values of the constructor's `comet` argument: True, False, and a value
\* that compares equal to neither (None, a string, 2, ...).
Flags == {"True", "False", "Other"}

\* Keyword-argument mappings given to the constructor (opaque).
Configs == {"cfg_a", "cfg_b"}

\* The wrapped methods of the class.
Ops == {"end", "log_metric", "log_model", "log_image", "log_code",
        "log_asset", "add_tag"}

\* How the try block of the wrapper ends: comet_ml.init() raises,
\* comet_ml.get_global_experiment() raises, comet_ml.Experiment(...) raises,
\* or all three return.
ActOutcomes == {"init_raises", "get_raises", "create_raises", "ok"}

\* How the call on the experiment handle ends.
BodyOutcomes == {"ok", "raises"}

\* Functions of the client the guard can call.
ClientFns == {"init", "get_global_experiment", "Experiment", "handle",
              "config.experiment"}

VARIABLES
    comet_installed,    \* module global: import comet_ml succeeded
    config_experiment,  \* comet_ml.config.experiment: 0 is None, else a handle
    sessions,           \* experiments created so far; a handle is an index
    ended,              \* handles whose end() has returned
    constructed,        \* "new" (before __init__), "ok", "raised"
    comet,              \* the constructor's comet argument
    kwargs,             \* the constructor's keyword arguments
    _logging,           \* self._logging: "None", "True", "False"
    _comet_args,        \* self._comet_args
    _experiment,        \* self._experiment: 0 is unset, else a handle
    client_calls,       \* how often each client function has been called
    warnings,           \* how often each kind of warning has been logged
    activation,         \* the first activation: "none", "ok", "failed"
    ncalls,             \* number of operation calls made
    last,               \* what the most recent operation call did
    prev,               \* what the operation call before it did
    pc,                 \* per thread: the line of the wrapper it is at
    loc                 \* per thread: the locals of its call in progress

vars == <<comet_installed, config_experiment, sessions, ended, constructed,
          comet, kwargs, _logging, _comet_args, _experiment, client_calls,
          warnings, activation, ncalls, last, prev, pc, loc>>

----------------------------------------------------------------------------
\* Helpers over the record of client calls.

ClientCall(fn, op, h, args) == [fn |-> fn, op |-> op, h |-> h, args |-> args]

Count(seq, fn) == Cardinality({i \in DOMAIN seq : seq[i].fn = fn})

CountWarn(seq, kind) == Cardinality({i \in DOMAIN seq : seq[i] = kind})

Forwarded(seq) == SelectSeq(seq, LAMBDA c : c.fn = "handle")

GuardSessions == {i \in DOMAIN sessions : sessions[i].owner = "guard"}

NoCall == [op |-> "none", pre |-> "None", ge_pre |-> 0, act |-> "skipped",
           body |-> "skipped", result |-> "returned", calls |-> <<>>,
           warned |-> <<>>]

\* The threads that call the guard.
Threads == {"t1", "t2"}

\* A thread's locals while it is not in a call and has made none: the
\* operation, the flag as read on lines 25 and 38, how the activation branch
\* and the method ended, the handle used, the client calls and warnings of
\* the call, the client calls the method has still to make; and over all its
\* calls: whether it has entered the activation branch, and the handle it has
\* created.
NoLocals == [op |-> "none", read25 |-> "None", act |-> "skipped",
             read38 |-> "None", h |-> 0, body |-> "skipped",
             result |-> "returned", calls |-> <<>>, warned |-> <<>>,
             todo |-> <<>>, tried |-> FALSE, made |-> 0]

----------------------------------------------------------------------------
\* __init__

\* self._logging after the constructor body.
InitLogging_NeverDisabled(flag) == "None"

InitLogging(flag) == IF flag = "False" THEN "False" ELSE "None"

\* The constructor raises "Comet not installed".
CtorRaises_WhenInstalled(flag, installed) == flag = "True" /\ installed

CtorRaises(flag, installed) == flag = "True" /\ ~installed

----------------------------------------------------------------------------
\* _requiresComet.wrapper

\* The condition of the activation branch.
NeedsActivation_Always(lg, installed) == installed

NeedsActivation_Falsy(lg, installed) == lg # "True" /\ installed

NeedsActivation_IgnoresInstalled(lg, installed) == lg = "None"

NeedsActivation(lg, installed) == lg = "None" /\ installed

\* The arguments given to comet_ml.Experiment.
ExperimentArgs_Default(args) == "cfg_default"

ExperimentArgs(args) == args

\* The client calls made inside the try block, in order.
ActivationCalls(act, args) ==
    CASE act = "init_raises" -> <<ClientCall("init", "", 0, "")>>
      [] act = "get_raises" ->
            <<ClientCall("init", "", 0, ""),
              ClientCall("get_global_experiment", "", 0, "")>>
      [] OTHER ->
            <<ClientCall("init", "", 0, ""),
              ClientCall("get_global_experiment", "", 0, ""),
              ClientCall("Experiment", "", 0, ExperimentArgs(args))>>

\* The clash warning is logged: get_global_experiment() returned, and not None.
ClashWarning_Unconditional(act, ge) == act \in {"create_raises", "ok"}

ClashWarning(act, ge) == act \in {"create_raises", "ok"} /\ ge # 0

\* The warnings logged by the activation branch, in order.
ActivationWarnings(act, ge) ==
    (IF ClashWarning(act, ge) THEN <<"clash">> ELSE <<>>)
        \o (IF act # "ok" THEN <<"failure">> ELSE <<>>)

\* self._logging when the activation branch is left.
LoggingAfter_Retry(act) == IF act = "ok" THEN "True" ELSE "None"

LoggingAfter(act) == IF act = "ok" THEN "True" ELSE "False"

\* The condition under which the wrapped method is called.
RunsMethod_NotFalse(lg) == lg # "False"

RunsMethod(lg) == lg = "True"

\* self._logging after the method call: the method never writes it, whether
\* the handle returns or raises.
LoggingAfterMethod_DisableOnFailure(op, lg, body) ==
    IF body = "raises" THEN "False" ELSE lg

LoggingAfterMethod_DisableAfterEnd(op, lg, body) ==
    IF op = "end" /\ body = "ok" THEN "False" ELSE lg

LoggingAfterMethod(op, lg, body) == lg

\* What the caller sees: the method's exception is not caught.
CallResult(body) == IF body = "raises" THEN "raised" ELSE "returned"

----------------------------------------------------------------------------
\* The wrapped methods: the client calls each makes, in order.

end_ClearFirst(h, body) ==
    <<ClientCall("config.experiment", "", 0, ""), ClientCall("handle", "end", h, "")>>

end_NoClear(h, body) == <<ClientCall("handle", "end", h, "")>>

end(h, body) ==
    IF body = "ok"
    THEN <<ClientCall("handle", "end", h, ""),
           ClientCall("config.experiment", "", 0, "")>>
    ELSE <<ClientCall("handle", "end", h, "")>>

log_metric(h, body) == <<ClientCall("handle", "log_metric", h, "")>>

log_model(h, body) == <<ClientCall("handle", "log_model", h, "")>>

log_image(h, body) == <<ClientCall("handle", "log_image", h, "")>>

log_code(h, body) == <<ClientCall("handle", "log_code", h, "")>>

log_asset(h, body) == <<ClientCall("handle", "log_asset", h, "")>>

add_tag(h, body) == <<ClientCall("handle", "add_tag", h, "")>>

Method(op, h, body) ==
    CASE op = "end" -> end(h, body)
      [] op = "log_metric" -> log_metric(h, body)
      [] op = "log_model" -> log_model(h, body)
      [] op = "log_image" -> log_image(h, body)
      [] op = "log_code" -> log_code(h, body)
      [] op = "log_asset" -> log_asset(h, body)
      [] op = "add_tag" -> add_tag(h, body)

----------------------------------------------------------------------------
\* The state machine.

Init ==
    /\ comet_installed \in BOOLEAN
    /\ \E manual \in BOOLEAN :
         /\ sessions = IF manual
                       THEN <<[owner |-> "manual", args |-> "cfg_manual"]>>
                       ELSE <<>>
         /\ config_experiment = IF manual THEN 1 ELSE 0
    /\ ended = {}
    /\ constructed = "new"
    /\ comet = "False"
    /\ kwargs = "unset"
    /\ _logging = "None"
    /\ _comet_args = "unset"
    /\ _experiment = 0
    /\ client_calls = [f \in ClientFns |-> 0]
    /\ warnings = [k \in {"clash", "failure"} |-> 0]
    /\ activation = "none"
    /\ ncalls = 0
    /\ last = NoCall
    /\ prev = NoCall
    /\ pc = [t \in Threads |-> "idle"]
    /\ loc = [t \in Threads |-> NoLocals]

\* CometLogger(comet=flag, **kw)
Construct ==
    /\ constructed = "new"
    /\ \E flag \in Flags, kw \in Configs :
         /\ comet' = flag
         /\ kwargs' = kw
         /\ _logging' = InitLogging(flag)
         /\ _comet_args' = kw
         /\ constructed' = IF CtorRaises(flag, comet_installed)
                           THEN "raised" ELSE "ok"
    /\ UNCHANGED <<comet_installed, config_experiment, sessions, ended,
                   _experiment, client_calls, warnings, activation, ncalls,
                   last, prev, pc, loc>>

\* One call of a wrapped method: the wrapper, then the method.
wrapper(op) ==
    /\ constructed = "ok"
    /\ ncalls < MaxCalls
    /\ \E a \in ActOutcomes, b \in BodyOutcomes :
         LET attempt == NeedsActivation(_logging, comet_installed)
             act     == IF attempt THEN a ELSE "skipped"
             created == attempt /\ act = "ok"
             acalls  == IF attempt
                        THEN ActivationCalls(act, _comet_args) ELSE <<>>
             awarn   == IF attempt
                        THEN ActivationWarnings(act, config_experiment)
                        ELSE <<>>
             sess    == IF created
                        THEN Append(sessions,
                                    [owner |-> "guard",
                                     args |-> acalls[Len(acalls)].args])
                        ELSE sessions
             exp     == IF created THEN Len(sess) ELSE _experiment
             ge      == IF created THEN Len(sess) ELSE config_experiment
             lg      == IF attempt THEN LoggingAfter(act) ELSE _logging
             run     == RunsMethod(lg)
             body    == IF run THEN b ELSE "skipped"
             mcalls  == IF run THEN Method(op, exp, body) ELSE <<>>
             calls   == acalls \o mcalls
         IN  /\ _logging' = LoggingAfterMethod(op, lg, body)
             /\ _experiment' = exp
             /\ sessions' = sess
             /\ config_experiment' =
                    IF Count(mcalls, "config.experiment") > 0 THEN 0 ELSE ge
             /\ ended' = IF run /\ op = "end" /\ body = "ok"
                         THEN ended \cup {exp} ELSE ended
             /\ client_calls' =
                    [f \in ClientFns |-> client_calls[f] + Count(calls, f)]
             /\ warnings' = [k \in {"clash", "failure"} |->
                                warnings[k] + CountWarn(awarn, k)]
             /\ activation' = IF attempt /\ activation = "none"
                              THEN (IF act = "ok" THEN "ok" ELSE "failed")
                              ELSE activation
             /\ last' = [op |-> op, pre |-> _logging,
                         ge_pre |-> config_experiment, act |-> act,
                         body |-> body, result |-> CallResult(body),
                         calls |-> calls, warned |-> awarn]
    /\ prev' = last
    /\ ncalls' = ncalls + 1
    /\ UNCHANGED <<comet_installed, constructed, comet, kwargs, _comet_args,
                   pc, loc>>

Call == \E op \in Ops : wrapper(op)

Next == Construct \/ Call

Spec == Init /\ [][Next]_vars

----------------------------------------------------------------------------
\* The same calls made by two threads on one guard: the wrapper has no lock,
\* so a thread can be preempted between any two lines.

\* The sequential variables that the threaded steps leave alone.
seqvars == <<last, prev, activation>>

Bump(fn) == [client_calls EXCEPT ![fn] = @ + 1]

\* Line 25: enter the call and test the flag.
T_Check(t) ==
    /\ constructed = "ok"
    /\ ncalls < MaxThreadCalls
    /\ pc[t] = "idle"
    /\ \E op \in Ops :
         LET attempt == NeedsActivation(_logging, comet_installed)
         IN  /\ loc' = [loc EXCEPT ![t] =
                    [NoLocals EXCEPT
                        !.op = op, !.read25 = _logging,
                        !.act = IF attempt THEN "pending" ELSE "skipped",
                        !.tried = loc[t].tried \/ attempt,
                        !.made = loc[t].made]]
             /\ pc' = [pc EXCEPT ![t] = IF attempt THEN "l26" ELSE "l38"]
    /\ ncalls' = ncalls + 1
    /\ UNCHANGED <<comet_installed, config_experiment, sessions, ended,
                   constructed, comet, kwargs, _logging, _comet_args,
                   _experiment, client_calls, warnings, seqvars>>

\* Line 26: self._logging = False.
T_Mark(t) ==
    /\ pc[t] = "l26"
    /\ _logging' = LoggingAfter(loc[t].act)
    /\ pc' = [pc EXCEPT ![t] = "l28"]
    /\ UNCHANGED <<comet_installed, config_experiment, sessions, ended,
                   constructed, comet, kwargs, _comet_args, _experiment,
                   client_calls, warnings, ncalls, loc, seqvars>>

\* Line 28: comet_ml.init().
T_Init(t) ==
    /\ pc[t] = "l28"
    /\ \E ok \in BOOLEAN :
         /\ loc' = [loc EXCEPT
                       ![t].calls = Append(@, ClientCall("init", "", 0, "")),
                       ![t].act = IF ok THEN @ ELSE "init_raises"]
         /\ pc' = [pc EXCEPT ![t] = IF ok THEN "l29" ELSE "l36"]
    /\ client_calls' = Bump("init")
    /\ UNCHANGED <<comet_installed, config_experiment, sessions, ended,
                   constructed, comet, kwargs, _logging, _comet_args,
                   _experiment, warnings, ncalls, seqvars>>

\* Lines 29-32: comet_ml.get_global_experiment() and the clash warning.
T_GetGlobal(t) ==
    /\ pc[t] = "l29"
    /\ \E ok \in BOOLEAN :
         LET clash == ok /\ ClashWarning("ok", config_experiment)
         IN  /\ loc' = [loc EXCEPT
                    ![t].calls =
                        Append(@, ClientCall("get_global_experiment", "", 0, "")),
                    ![t].act = IF ok THEN @ ELSE "get_raises",
                    ![t].warned = IF clash THEN Append(@, "clash") ELSE @]
             /\ warnings' = IF clash
                            THEN [warnings EXCEPT !["clash"] = @ + 1]
                            ELSE warnings
             /\ pc' = [pc EXCEPT ![t] = IF ok THEN "l33" ELSE "l36"]
    /\ client_calls' = Bump("get_global_experiment")
    /\ UNCHANGED <<comet_installed, config_experiment, sessions, ended,
                   constructed, comet, kwargs, _logging, _comet_args,
                   _experiment, ncalls, seqvars>>

\* Line 33: self._experiment = comet_ml.Experiment(**self._comet_args).
T_Create(t) ==
    /\ pc[t] = "l33"
    /\ \E ok \in BOOLEAN :
         LET call == ClientCall("Experiment", "", 0, ExperimentArgs(_comet_args))
             new  == Len(sessions) + 1
         IN  /\ loc' = [loc EXCEPT
                    ![t].calls = Append(@, call),
                    ![t].act = IF ok THEN @ ELSE "create_raises",
                    ![t].made = IF ok THEN new ELSE @]
             /\ sessions' = IF ok
                            THEN Append(sessions,
                                        [owner |-> "guard", args |-> call.args])
                            ELSE sessions
             /\ config_experiment' = IF ok THEN new ELSE config_experiment
             /\ _experiment' = IF ok THEN new ELSE _experiment
             /\ pc' = [pc EXCEPT ![t] = IF ok THEN "l34" ELSE "l36"]
    /\ client_calls' = Bump("Experiment")
    /\ UNCHANGED <<comet_installed, ended, constructed, comet, kwargs,
                   _logging, _comet_args, warnings, ncalls, seqvars>>

\* Line 34: self._logging = True.
T_Activated(t) ==
    /\ pc[t] = "l34"
    /\ _logging' = LoggingAfter("ok")
    /\ loc' = [loc EXCEPT ![t].act = "ok"]
    /\ pc' = [pc EXCEPT ![t] = "l38"]
    /\ UNCHANGED <<comet_installed, config_experiment, sessions, ended,
                   constructed, comet, kwargs, _comet_args, _experiment,
                   client_calls, warnings, ncalls, seqvars>>

\* Lines 35-36: except Exception: logging.warning(e).
T_Except(t) ==
    /\ pc[t] = "l36"
    /\ loc' = [loc EXCEPT ![t].warned = Append(@, "failure")]
    /\ warnings' = [warnings EXCEPT !["failure"] = @ + 1]
    /\ pc' = [pc EXCEPT ![t] = "l38"]
    /\ UNCHANGED <<comet_installed, config_experiment, sessions, ended,
                   constructed, comet, kwargs, _logging, _comet_args,
                   _experiment, client_calls, ncalls, seqvars>>

\* Line 38: test the flag again; the call returns None when it is not True.
T_Test(t) ==
    /\ pc[t] = "l38"
    /\ loc' = [loc EXCEPT ![t].read38 = _logging]
    /\ pc' = [pc EXCEPT ![t] = IF RunsMethod(_logging) THEN "l39" ELSE "idle"]
    /\ UNCHANGED <<comet_installed, config_experiment, sessions, ended,
                   constructed, comet, kwargs, _logging, _comet_args,
                   _experiment, client_calls, warnings, ncalls, seqvars>>

\* The effect of one client call of a method on the client's state.
AfterClientCall(c) ==
    /\ client_calls' = Bump(c.fn)
    /\ config_experiment' =
          IF c.fn = "config.experiment" THEN 0 ELSE config_experiment

\* Line 39: the method's first client call, on self._experiment as it is now.
T_Method(t) ==
    /\ pc[t] = "l39"
    /\ \E b \in BodyOutcomes :
         LET mcalls == Method(loc[t].op, _experiment, b)
             more   == b = "ok" /\ Len(mcalls) > 1
         IN  /\ loc' = [loc EXCEPT
                    ![t].h = _experiment, ![t].body = b,
                    ![t].calls = Append(@, mcalls[1]),
                    ![t].todo = IF more THEN Tail(mcalls) ELSE <<>>,
                    ![t].result = CallResult(b)]
             /\ AfterClientCall(mcalls[1])
             /\ ended' = IF loc[t].op = "end" /\ b = "ok"
                            /\ mcalls[1].fn = "handle"
                         THEN ended \cup {_experiment} ELSE ended
             /\ _logging' = LoggingAfterMethod(loc[t].op, _logging, b)
             /\ pc' = [pc EXCEPT ![t] = IF more THEN "l46" ELSE "idle"]
    /\ UNCHANGED <<comet_installed, sessions, constructed, comet, kwargs,
                   _comet_args, _experiment, warnings, ncalls, seqvars>>

\* Line 46, in end() only: comet_ml.config.experiment = None.
T_Clear(t) ==
    /\ pc[t] = "l46"
    /\ loc' = [loc EXCEPT ![t].calls = Append(@, Head(loc[t].todo)),
                          ![t].todo = Tail(@)]
    /\ AfterClientCall(Head(loc[t].todo))
    /\ ended' = IF Head(loc[t].todo).fn = "handle"
                THEN ended \cup {loc[t].h} ELSE ended
    /\ pc' = [pc EXCEPT ![t] = IF Len(loc[t].todo) > 1 THEN "l46" ELSE "idle"]
    /\ UNCHANGED <<comet_installed, sessions, constructed, comet, kwargs,
                   _logging, _comet_args, _experiment, warnings, ncalls,
                   seqvars>>

Step(t) ==
    \/ T_Check(t)
    \/ T_Mark(t)
    \/ T_Init(t)
    \/ T_GetGlobal(t)
    \/ T_Create(t)
    \/ T_Activated(t)
    \/ T_Except(t)
    \/ T_Test(t)
    \/ T_Method(t)
    \/ T_Clear(t)

NextThreads == Construct \/ \E t \in Threads : Step(t)

SpecThreads == Init /\ [][NextThreads]_vars

----------------------------------------------------------------------------
\* The states of the guard.

UNINITIALIZED == _logging = "None"

ACTIVE == _logging = "True"

DISABLED == _logging = "False"

ClientUntouched == \A f \in ClientFns : client_calls[f] = 0

\* The calls of the most recent operation that reached the handle.
LastForwarded == Forwarded(last.calls)

\* The most recent operation ran the activation branch.
LastAttempted == last.act # "skipped"

----------------------------------------------------------------------------
\* C1: a guard constructed with comet=False never touches the client (no
\* init(), no get_global_experiment(), no Experiment(), no call on a handle,
\* no write of config.experiment), creates no session, logs no warning, and
\* every operation call on it returns without error.
C1_DisabledNeverTouchesClient ==
    (constructed = "ok" /\ comet = "False") =>
        /\ DISABLED
        /\ ClientUntouched
        /\ GuardSessions = {}
        /\ _experiment = 0
        /\ warnings["clash"] + warnings["failure"] = 0
        /\ last.calls = <<>>
        /\ last.result = "returned"

C1_Witness ==
    /\ constructed = "ok" /\ comet = "False" /\ comet_installed
    /\ ncalls >= 3 /\ last.op = "end"

\* C2: for a guard constructed with comet=True while comet_ml is installed,
\* once the first activation has succeeded exactly one session has been
\* created by the guard, whatever operations follow (end() included), and the
\* activation branch has run exactly once.
C2_ExactlyOneSession ==
    (comet = "True" /\ comet_installed /\ activation = "ok") =>
        /\ Cardinality(GuardSessions) = 1
        /\ client_calls["Experiment"] = 1
        /\ client_calls["init"] = 1
        /\ client_calls["get_global_experiment"] = 1
        /\ _experiment \in GuardSessions

C2_Witness ==
    /\ comet = "True" /\ activation = "ok"
    /\ ncalls >= 3 /\ ended # {} /\ last.op # "end"

\* C3 as amended: when the first activation of a guard constructed with
\* comet=True fails, the guard is DISABLED from then on, the failure is logged
\* as exactly one warning (after the clash warning, when a global experiment
\* existed and it was Experiment() that raised), the call returns normally
\* without reaching the handle, and every later call makes no client call,
\* no activation attempt and logs nothing.
C3_FailedActivationDisables ==
    (comet = "True" /\ comet_installed /\ activation = "failed") =>
        /\ DISABLED
        /\ warnings["failure"] = 1
        /\ warnings["clash"] =
              (IF client_calls["Experiment"] = 1 /\ sessions # <<>>
               THEN 1 ELSE 0)
        /\ client_calls["init"] = 1
        /\ client_calls["handle"] = 0
        /\ client_calls["config.experiment"] = 0
        /\ GuardSessions = {}
        /\ last.result = "returned"
        /\ LastForwarded = <<>>
        /\ LastAttempted =>
              /\ last.pre = "None"
              /\ last.warned[Len(last.warned)] = "failure"
        /\ ~LastAttempted =>
              /\ last.pre = "False"
              /\ last.calls = <<>>
              /\ last.warned = <<>>

C3_Witness ==
    /\ comet = "True" /\ activation = "failed"
    /\ ncalls >= 2 /\ last.op = "log_image"
    /\ warnings["clash"] = 1

\* C3 as stated: a failed first activation emits one warning.
C3_Original_OneWarning ==
    (comet = "True" /\ comet_installed /\ activation = "failed") =>
        /\ DISABLED
        /\ warnings["clash"] + warnings["failure"] = 1
        /\ last.result = "returned"
        /\ LastForwarded = <<>>

\* C4: no failure of the client during an operation call reaches the caller:
\* when the handle raises in a forwarded operation, the call returns normally
\* and the failure is logged as a warning.
C4_HandleFailureSwallowed ==
    (ncalls > 0 /\ last.body = "raises") =>
        /\ last.result = "returned"
        /\ CountWarn(last.warned, "failure") = 1

\* C5: constructing with comet=True while comet_ml is not installed raises, and
\* no operation is ever called on such a guard; constructing with comet=True
\* while comet_ml is installed does not raise and leaves the guard
\* UNINITIALIZED with the client untouched until the first operation call.
C5_Construction ==
    /\ (constructed # "new" /\ comet = "True" /\ ~comet_installed) =>
          /\ constructed = "raised"
          /\ ncalls = 0
          /\ ClientUntouched
    /\ (constructed # "new" /\ comet = "True" /\ comet_installed) =>
          /\ constructed = "ok"
          /\ ncalls = 0 => (UNINITIALIZED /\ ClientUntouched
                            /\ _experiment = 0 /\ _comet_args = kwargs)

C5_Witness == constructed = "raised" /\ comet = "True" /\ ~comet_installed

\* C6: between operation calls the flag changes only from UNINITIALIZED to
\* ACTIVE or from UNINITIALIZED to DISABLED: a DISABLED guard is never ACTIVE
\* later and an ACTIVE guard never leaves ACTIVE, whatever operation is called.
C6_Transitions ==
    [][(constructed = "ok" /\ _logging' # _logging) =>
          /\ _logging = "None"
          /\ _logging' \in {"True", "False"}]_vars

C6_Witness ==
    /\ last.pre = "True" /\ last.op = "end" /\ last.body = "ok" /\ ACTIVE

\* C7 as amended: end() on an ACTIVE guard calls end on the guard's own
\* handle first; when that call returns, config.experiment is then set to
\* None; when it raises, config.experiment is not written and keeps its
\* value.
C7_EndThenClear ==
    (last.op = "end" /\ last.pre = "True") =>
        /\ _experiment \in GuardSessions
        /\ last.body = "ok" =>
              /\ last.calls = <<ClientCall("handle", "end", _experiment, ""),
                                ClientCall("config.experiment", "", 0, "")>>
              /\ config_experiment = 0
        /\ last.body = "raises" =>
              /\ last.calls = <<ClientCall("handle", "end", _experiment, "")>>
              /\ config_experiment = last.ge_pre

C7_Witness ==
    /\ last.op = "end" /\ last.pre = "True" /\ last.body = "ok"
    /\ last.ge_pre # 0

\* C7 as stated: after end() on an ACTIVE guard the handle's end has been
\* called and then config.experiment is None.
C7_Original_AlwaysCleared ==
    (last.op = "end" /\ last.pre = "True") =>
        /\ last.calls = <<ClientCall("handle", "end", _experiment, ""),
                          ClientCall("config.experiment", "", 0, "")>>
        /\ config_experiment = 0

\* C8 as amended: in an activation attempt the clash warning is logged exactly
\* once when get_global_experiment() returns an existing experiment and not at
\* all otherwise (none existed, or init() or get_global_experiment() raised);
\* with an existing experiment the guard still creates its own session and
\* becomes ACTIVE when none of the three client calls raises.
C8_ClashWarning ==
    LastAttempted =>
        /\ (last.ge_pre # 0 /\ last.act \in {"create_raises", "ok"}) =>
              CountWarn(last.warned, "clash") = 1
        /\ (last.ge_pre # 0 /\ last.act \in {"init_raises", "get_raises"}) =>
              CountWarn(last.warned, "clash") = 0
        /\ last.ge_pre = 0 => CountWarn(last.warned, "clash") = 0
        /\ (last.ge_pre # 0 /\ last.act = "ok") =>
              /\ ACTIVE
              /\ _experiment \in GuardSessions
              /\ _experiment # last.ge_pre
              /\ last.warned = <<"clash">>

C8_Witness ==
    /\ LastAttempted /\ last.ge_pre # 0 /\ last.act = "ok" /\ ACTIVE

\* C8 as stated: whenever a global experiment exists at an activation attempt,
\* the clash warning is logged exactly once (and the guard becomes ACTIVE with
\* its own session unless Experiment() raises).
C8_Original_ClashAlwaysWarned ==
    (LastAttempted /\ last.ge_pre # 0) =>
        /\ CountWarn(last.warned, "clash") = 1
        /\ last.act # "create_raises" =>
              (ACTIVE /\ _experiment \in GuardSessions)

\* C9: the stored configuration is the constructor's keyword arguments at all
\* times, and every session the guard creates is created with exactly that
\* mapping.
C9_ConfigForwarded ==
    constructed = "ok" =>
        /\ _comet_args = kwargs
        /\ \A i \in GuardSessions : sessions[i].args = kwargs
        /\ \A i \in DOMAIN last.calls :
              last.calls[i].fn = "Experiment" => last.calls[i].args = kwargs

C9_Witness ==
    /\ constructed = "ok" /\ kwargs = "cfg_b" /\ GuardSessions # {}
    /\ last.act = "ok"

\* C10: an operation call reaches the handle exactly once, under the
\* operation's own name and on the guard's handle, when the guard is ACTIVE
\* after the call's activation step, and not at all otherwise; the call that
\* activates the guard is itself forwarded.
C10_ForwardedOnceIffActive ==
    ncalls > 0 =>
        IF ACTIVE
        THEN /\ Len(LastForwarded) = 1
             /\ LastForwarded[1].op = last.op
             /\ LastForwarded[1].h = _experiment
             /\ _experiment \in GuardSessions
        ELSE LastForwarded = <<>>

C10_Witness ==
    /\ last.act = "ok" /\ last.op = "log_metric" /\ last.pre = "None"
    /\ Len(LastForwarded) = 1

----------------------------------------------------------------------------
\* The calls of the operation before the most recent one that reached the
\* handle.
PrevForwarded == Forwarded(prev.calls)

\* C11: a forwarded operation that raises on an ACTIVE guard leaves the guard
\* ACTIVE with the same handle, and the next operation call is forwarded to
\* that handle again; the guard is DISABLED only by construction with
\* comet=False or by a failed first activation.
C11_BodyFailureKeepsActive ==
    /\ last.body = "raises" =>
          /\ ACTIVE
          /\ Len(LastForwarded) = 1
          /\ LastForwarded[1].h = _experiment
          /\ _experiment \in GuardSessions
    /\ prev.body = "raises" =>
          /\ last.pre = "True"
          /\ ~LastAttempted
          /\ Len(LastForwarded) = 1
          /\ LastForwarded[1].op = last.op
          /\ LastForwarded[1].h = PrevForwarded[1].h
          /\ Cardinality(GuardSessions) = 1
          /\ ACTIVE
    /\ (constructed = "ok" /\ DISABLED) =>
          (comet = "False" \/ activation = "failed")

C11_Witness ==
    /\ prev.body = "raises" /\ prev.pre = "True" /\ prev.op = "log_asset"
    /\ last.op = "add_tag" /\ last.body = "ok" /\ ACTIVE

\* C12: once end() has returned on the guard's handle, the guard is still
\* ACTIVE; every later call, a second end() included, is forwarded exactly
\* once to that same ended handle, no new session is created and no
\* activation is attempted.
C12_ActiveAfterEnd ==
    [][(constructed = "ok" /\ _experiment \in ended /\ ncalls' # ncalls) =>
          /\ _logging = "True" /\ _logging' = "True"
          /\ _experiment' = _experiment
          /\ sessions' = sessions
          /\ last'.act = "skipped"
          /\ Forwarded(last'.calls) =
                <<ClientCall("handle", last'.op, _experiment, "")>>
          /\ client_calls'["Experiment"] = client_calls["Experiment"]
          /\ client_calls'["init"] = client_calls["init"]]_vars

C12_Witness ==
    /\ prev.op = "end" /\ prev.body = "ok" /\ prev.pre = "True"
    /\ last.op = "end" /\ last.pre = "True" /\ _experiment \in ended
    /\ Len(LastForwarded) = 1 /\ ACTIVE

\* C15 as amended: end() as the first operation on an UNINITIALIZED guard
\* with comet_ml installed runs the activation; when it succeeds the session
\* is created with the constructor's keyword arguments and end is called at
\* once on the new handle; config.experiment is then set to None when that
\* call returns, and is left pointing at the new session when it raises.
C15_EndActivates ==
    (ncalls = 1 /\ last.op = "end" /\ last.pre = "None" /\ comet_installed) =>
        /\ LastAttempted
        /\ client_calls["init"] = 1
        /\ last.act = "ok" =>
              /\ ACTIVE
              /\ GuardSessions = {_experiment}
              /\ sessions[_experiment].args = kwargs
              /\ _experiment # last.ge_pre
              /\ SubSeq(last.calls, 1, 4) =
                    <<ClientCall("init", "", 0, ""),
                      ClientCall("get_global_experiment", "", 0, ""),
                      ClientCall("Experiment", "", 0, kwargs),
                      ClientCall("handle", "end", _experiment, "")>>
              /\ last.body = "ok" =>
                    /\ Len(last.calls) = 5
                    /\ last.calls[5] = ClientCall("config.experiment", "", 0, "")
                    /\ config_experiment = 0
                    /\ _experiment \in ended
              /\ last.body = "raises" =>
                    /\ Len(last.calls) = 4
                    /\ config_experiment = _experiment
        /\ last.act # "ok" =>
              /\ DISABLED
              /\ GuardSessions = {}
              /\ LastForwarded = <<>>

C15_Witness ==
    /\ ncalls = 1 /\ last.op = "end" /\ last.pre = "None"
    /\ last.act = "ok" /\ last.body = "ok" /\ config_experiment = 0
    /\ comet = "True"

\* C15 as stated: when the activation run by a first end() succeeds, the new
\* session is ended and config.experiment is None.
C15_Original_EndedAndCleared ==
    (ncalls = 1 /\ last.op = "end" /\ last.pre = "None" /\ comet_installed
     /\ last.act = "ok") =>
        /\ GuardSessions = {_experiment}
        /\ sessions[_experiment].args = kwargs
        /\ Len(LastForwarded) = 1
        /\ config_experiment = 0

\* C16: while comet_ml is not installed, a guard constructed with a flag that
\* is neither True nor False stays UNINITIALIZED: no operation call attempts
\* activation, touches the client, logs a warning or raises.
C16_AbsentNeverActivates ==
    (constructed = "ok" /\ ~comet_installed /\ comet = "Other") =>
        /\ UNINITIALIZED
        /\ ClientUntouched
        /\ activation = "none"
        /\ GuardSessions = {}
        /\ warnings["clash"] + warnings["failure"] = 0
        /\ ~LastAttempted
        /\ last.calls = <<>>
        /\ last.result = "returned"
        /\ last.pre = "None"

C16_Witness ==
    /\ constructed = "ok" /\ ~comet_installed /\ comet = "Other"
    /\ ncalls >= 3 /\ last.op = "end" /\ prev.op = "log_metric"

----------------------------------------------------------------------------
\* Two threads on one guard (SpecThreads).

\* Thread t is inside the activation branch, after line 26 and before the
\* branch is left.
Activating(t) == pc[t] \in {"l28", "l29", "l33", "l34", "l36"}

\* Thread t has finished a call.
Finished(t) == pc[t] = "idle" /\ loc[t].op # "none"

\* C13: with two threads the guard can create two sessions: a session is
\* created only by a thread that read the flag as None on line 25, the flag
\* is never None again once any thread has passed line 26, and so a second
\* session exists exactly when both threads passed the check before either
\* wrote the flag; both sessions are set as the client's one global
\* experiment in turn.
C13_SessionsByThreadsPastCheck ==
    /\ GuardSessions = {loc[t].made : t \in Threads} \ {0}
    /\ \A t \in Threads :
          /\ loc[t].act # "skipped" => loc[t].read25 = "None"
          /\ loc[t].made # 0 => loc[t].tried
          /\ loc[t].tried => comet_installed
          /\ (loc[t].tried /\ pc[t] # "l26") => _logging # "None"
    /\ client_calls["Experiment"] <= Cardinality({t \in Threads : loc[t].tried})
    /\ Cardinality(GuardSessions) <= client_calls["Experiment"]

C13_Witness ==
    /\ comet = "True"
    /\ Cardinality(GuardSessions) = 2
    /\ client_calls["init"] = 2
    /\ \A t \in Threads :
          /\ loc[t].read25 = "None" /\ loc[t].act = "ok"
          /\ loc[t].made \in GuardSessions
    /\ config_experiment \in GuardSessions

\* C14: while one thread is inside the activation branch and no other thread
\* has entered it, the flag reads False; a call of another thread that reads
\* it as False on lines 25 and 38 attempts no activation, makes no client
\* call, logs nothing and returns, even though the guard becomes ACTIVE when
\* the first thread reaches line 34.
C14_CallDroppedDuringActivation ==
    /\ \A t \in Threads :
          (Activating(t) /\ \A u \in Threads \ {t} : ~loc[u].tried) =>
              DISABLED
    /\ \A u \in Threads :
          /\ loc[u].read25 = "False" => loc[u].act = "skipped"
          /\ (Finished(u) /\ loc[u].read25 = "False"
                /\ loc[u].read38 = "False") =>
                /\ loc[u].calls = <<>>
                /\ loc[u].warned = <<>>
                /\ loc[u].result = "returned"

C14_Witness ==
    /\ comet = "True" /\ ACTIVE
    /\ \E t \in Threads, u \in Threads :
          /\ t # u
          /\ loc[t].act = "ok" /\ loc[t].read25 = "None"
          /\ Finished(u) /\ ~loc[u].tried
          /\ loc[u].read25 = "False" /\ loc[u].read38 = "False"
          /\ loc[u].calls = <<>>
          /\ loc[u].op = "log_metric"

====
